---- MODULE Spec2Model ----
(***************************************************************************)
(* Model of release-notes-server: the retrieval loop (fetchCommits), the   *)
(* commit message parser (parseConventionalCommit), the pull-request       *)
(* merger (enrichCommitsWithPRData), the aggregator (calculateStats and    *)
(* the groupCommitsBy functions) and the renderer (generateMarkdown,       *)
(* generateReleaseNotes).                                                  *)
(*                                                                         *)
(* Text is modelled at the level of tokens: a commit message is a sequence *)
(* of tokens, each token a fixed piece of text (a single whitespace or     *)
(* punctuation character, or a word).  Texts produced by the program       *)
(* (titles, bodies, scopes) are the concatenation of their tokens, so that *)
(* String.length is Len of the text.                                       *)
(***************************************************************************)
EXTENDS Integers, Sequences, FiniteSets, TLC

VARIABLES
  pc,        \* position of the run: which operation acts next
  message,   \* parser run: the raw commit message (token sequence)
  parsed,    \* parser run: the record returned by parseConventionalCommit
  mCommit,   \* merger run: the commit record as fetched
  mPr,       \* merger run: the pull request returned by fetchPullRequest
  mOnce,     \* merger run: the record after one enrichment pass
  mTwice,    \* merger run: the record after a second pass with the same PR
  commits,   \* pipeline: the ParsedCommit[] built by fetchCommits
  cursor,    \* pipeline: index of the next commit the enrichment loop visits
  history,   \* pipeline: per commit, the raw message and the PR merged into it
  options,   \* pipeline: the options handed to generateReleaseNotes
  result,    \* pipeline: what generateReleaseNotes returned or threw
  remote,    \* fetch run: the commits of the repository, newest first
  call,      \* fetch run: the arguments fetchCommits is called with
  loop,      \* fetch run: the locals of fetchCommits
  fetched    \* fetch run: what the finished calls returned

parseVars == <<message, parsed>>
mergeVars == <<mCommit, mPr, mOnce, mTwice>>
pipeVars  == <<commits, cursor, history, options, result>>
fetchVars == <<remote, call, loop, fetched>>
vars == <<pc, message, parsed, mCommit, mPr, mOnce, mTwice,
          commits, cursor, history, options, result,
          remote, call, loop, fetched>>

-----------------------------------------------------------------------------
(* Bounds *)

MaxMsgLen == 5      \* longest message drawn exhaustively from ParseAlphabet
MaxCommits == 2     \* most commits in one pipeline run
MaxHistory == 3     \* most commits in the repository of a fetch run
perPage == 2        \* page size of the fetch run (100 in the source), scaled
                    \* so that a history of MaxHistory commits spans pages

-----------------------------------------------------------------------------
(* JavaScript values *)

\* `undefined` for an optional string field (scope, description, version).
Undefined == "<undefined>"

\* `undefined` for the optional prNumber (parseInt of \d+ is never negative).
NoNumber == -1

\* !!s for an optional string: undefined and "" are falsy.
Truthy(s) == s # Undefined /\ s # ""

Min(S) == CHOOSE m \in S : \A n \in S : m <= n
Max(S) == CHOOSE m \in S : \A n \in S : m >= n

-----------------------------------------------------------------------------
(* Text *)

Marker == "BREAKING CHANGE:"

\* \s : the whitespace tokens.  "." of the regex is every token but "\n".
IsSpace(t) == t \in {" ", "\n"}

\* The keywords (of the parser's inference and of the label matching) that
\* occur as substrings of the lower-cased text of a token or label.
KeywordsOf(t) ==
  CASE t \in {"feat", "FEAT"}          -> {"feat"}
    [] t \in {"fix", "Fix"}            -> {"fix"}
    [] t = "docs"                      -> {"doc"}
    [] t = "perf"                      -> {"perf"}
    [] t = "refactor"                  -> {"refactor"}
    [] t = "test"                      -> {"test"}
    [] t = "build"                     -> {"build"}
    [] t = "bug"                       -> {"bug"}
    [] t = "deps"                      -> {"deps"}
    [] t \in {"breaking", "Breaking-Change"} -> {"breaking"}
    [] t = "feature"                   -> {"feat", "feature"}
    [] t = "bugfix"                    -> {"bug", "fix"}
    [] t = "documentation"             -> {"doc"}
    [] OTHER                           -> {}

\* String.prototype.toLowerCase on a token, for the tokens with capitals.
toLowerCase(t) ==
  CASE t = "FEAT" -> "feat"
    [] t = "Fix"  -> "fix"
    [] t = Marker -> "breaking change:"
    [] t = "Breaking-Change" -> "breaking-change"
    [] OTHER -> t

\* message.includes('BREAKING CHANGE:') : case-sensitive.
IncludesMarker(msg) == \E i \in 1..Len(msg) : msg[i] = Marker

\* lowerMessage.includes(kw)
LowerIncludes(msg, kw) == \E i \in 1..Len(msg) : kw \in KeywordsOf(msg[i])

RECURSIVE Join(_)
Join(toks) == IF toks = <<>> THEN "" ELSE Head(toks) \o Join(Tail(toks))

\* String.prototype.trim
RECURSIVE TrimLeft(_)
TrimLeft(toks) ==
  IF toks # <<>> /\ IsSpace(Head(toks)) THEN TrimLeft(Tail(toks)) ELSE toks

RECURSIVE TrimRight(_)
TrimRight(toks) ==
  IF toks # <<>> /\ IsSpace(toks[Len(toks)])
  THEN TrimRight(SubSeq(toks, 1, Len(toks) - 1)) ELSE toks

Trim(toks) == TrimRight(TrimLeft(toks))

-----------------------------------------------------------------------------
(* parseConventionalCommit *)

CommitTypes == {"breaking", "feature", "fix", "docs", "perf", "refactor",
                "test", "build", "other"}

TypeTokens == {"feat", "fix", "docs", "perf", "refactor", "test", "build",
               "chore"}

\* mapCommitType without the typeMap lookup: the token itself is returned.
mapCommitType_Raw(type) == toLowerCase(type)

mapCommitType(type) ==
  LET t == toLowerCase(type) IN
  CASE t = "feat" -> "feature"
    [] t = "chore" -> "other"
    [] t \in {"fix", "docs", "perf", "refactor", "test", "build"} -> t
    [] OTHER -> "other"

\* The regex
\*   ^(feat|...|chore)(?:\(([^)]+)\))?(!)?:\s*(.+)(?:\n\n([\s\S]*))?$   /i
\* matched with JavaScript's backtracking order.  The result is
\* [ok, type, scope, bang, msg, hasDesc, desc]; msg and desc are token
\* sequences, hasDesc tells whether group 5 took part in the match.

\* Position of the ")" that closes a scope group opened at msg[2], else 0:
\* [^)]+ needs at least one token and stops at the first ")".
ScopeClose(msg) ==
  IF Len(msg) >= 2 /\ msg[2] = "("
  THEN LET closers == {j \in 3..Len(msg) : msg[j] = ")"} IN
       IF closers = {} THEN 0
       ELSE IF Min(closers) > 3 THEN Min(closers) ELSE 0
  ELSE 0

\* Number of leading whitespace tokens of r: the most \s* can take.
LeadingSpace(r) ==
  Max({k \in 0..Len(r) : \A i \in 1..k : IsSpace(r[i])})

\* End of the maximal run of non-newline tokens of r starting at s.
RunEnd(r, s) ==
  Max({e \in s..Len(r) : \A i \in s..e : r[i] # "\n"})

\* \s* takes k tokens, (.+) takes the run from k+1, and what follows is the
\* end of the input or \n\n and the body.
TitleAt(r, k) ==
  /\ k < Len(r)
  /\ r[k + 1] # "\n"
  /\ LET e == RunEnd(r, k + 1) IN
       \/ e = Len(r)
       \/ e + 2 <= Len(r) /\ r[e + 2] = "\n"

\* The regex is matched in stages, each handing what it took to the next:
\* the type, the optional scope group (close), the optional `!` (bang), the
\* colon, and of the rest r after the colon the k tokens of \s* and the run
\* of (.+) that ends at e.
NoMatch == [ok |-> FALSE, type |-> "", scope |-> Undefined, bang |-> FALSE,
            msg |-> <<>>, hasDesc |-> FALSE, desc |-> <<>>]

MatchGroups(msg, close, bang, r, k, e) ==
  [ok |-> TRUE,
   type |-> msg[1],
   scope |-> IF close > 0 THEN Join(SubSeq(msg, 3, close - 1)) ELSE Undefined,
   bang |-> bang,
   msg |-> SubSeq(r, k + 1, e),
   hasDesc |-> e < Len(r),
   desc |-> IF e < Len(r) THEN SubSeq(r, e + 3, Len(r)) ELSE <<>>]

\* \s* is greedy: of the prefixes that let the rest match, the longest.
MatchTitle(msg, close, bang, r, ks) ==
  IF ks = {} THEN NoMatch
  ELSE MatchGroups(msg, close, bang, r, Max(ks), RunEnd(r, Max(ks) + 1))

MatchColon(msg, close, bang, q) ==
  IF q <= Len(msg) /\ msg[q] = ":"
  THEN MatchTitle(msg, close, bang, SubSeq(msg, q + 1, Len(msg)),
                  {k \in 0..LeadingSpace(SubSeq(msg, q + 1, Len(msg))) :
                     TitleAt(SubSeq(msg, q + 1, Len(msg)), k)})
  ELSE NoMatch

MatchBang(msg, close, p) ==
  MatchColon(msg, close, p <= Len(msg) /\ msg[p] = "!",
             IF p <= Len(msg) /\ msg[p] = "!" THEN p + 1 ELSE p)

MatchScope(msg, close) ==
  MatchBang(msg, close, IF close > 0 THEN close + 1 ELSE 2)

MatchConventional(msg) ==
  IF Len(msg) >= 1 /\ toLowerCase(msg[1]) \in TypeTokens
  THEN MatchScope(msg, ScopeClose(msg))
  ELSE NoMatch

\* message.split('\n') : the first line, and the remaining lines joined by
\* '\n' again (the text after the first newline).
FirstLine(msg) ==
  LET nls == {i \in 1..Len(msg) : msg[i] = "\n"} IN
  IF nls = {} THEN msg ELSE SubSeq(msg, 1, Min(nls) - 1)

RestLines(msg) ==
  LET nls == {i \in 1..Len(msg) : msg[i] = "\n"} IN
  IF nls = {} THEN <<>> ELSE SubSeq(msg, Min(nls) + 1, Len(msg))

InferType(msg) ==
  IF IncludesMarker(msg) THEN "breaking"
  ELSE IF LowerIncludes(msg, "fix") \/ LowerIncludes(msg, "bug") THEN "fix"
  ELSE IF LowerIncludes(msg, "feat") THEN "feature"
  ELSE IF LowerIncludes(msg, "doc") THEN "docs"
  ELSE IF LowerIncludes(msg, "perf") THEN "perf"
  ELSE IF LowerIncludes(msg, "test") THEN "test"
  ELSE IF LowerIncludes(msg, "build") \/ LowerIncludes(msg, "deps")
       THEN "build"
  ELSE IF LowerIncludes(msg, "refactor") THEN "refactor"
  ELSE "other"

\* The record parseConventionalCommit returns, given the outcome m of the
\* regex match; byBang and byMarker tell which of the two tests
\* `!!breaking || message.includes('BREAKING CHANGE:')` of the branch of a
\* match are made.
ParseResult(msg, m, byBang, byMarker) ==
  IF m.ok
  THEN [type |-> mapCommitType(m.type),
        scope |-> m.scope,
        breaking |-> (byBang /\ m.bang) \/ (byMarker /\ IncludesMarker(msg)),
        message |-> Join(Trim(m.msg)),
        description |-> IF m.hasDesc THEN Join(Trim(m.desc)) ELSE Undefined]
  ELSE [type |-> InferType(msg),
        scope |-> Undefined,
        breaking |-> IncludesMarker(msg),
        message |-> Join(Trim(FirstLine(msg))),
        description |-> IF Join(Trim(RestLines(msg))) # ""
                        THEN Join(Trim(RestLines(msg))) ELSE Undefined]

\* parseConventionalCommit with `breaking: !!breaking` on a grammar match:
\* the marker in the body is not looked at.
parseConventionalCommit_BangOnly(msg) ==
  ParseResult(msg, MatchConventional(msg), TRUE, FALSE)

\* parseConventionalCommit with `breaking: message.includes(...)` on a
\* grammar match: the `!` of the prefix is not looked at.
parseConventionalCommit_NoBang(msg) ==
  ParseResult(msg, MatchConventional(msg), FALSE, TRUE)

parseConventionalCommit(msg) ==
  ParseResult(msg, MatchConventional(msg), TRUE, TRUE)

-----------------------------------------------------------------------------
(* Inputs of the parser run *)

ParseAlphabet == {"fix", "!", ":", " ", "\n", Marker, "x"}

BoundedMessages == UNION {[1..n -> ParseAlphabet] : n \in 0..MaxMsgLen}

\* Longer messages: scopes, bodies, other type tokens, capitals.
ScopedMessages ==
  { <<"feat", "(", "api", ")", ":", " ", "x">>,
    <<"fix", "(", "api", ")", "!", ":", " ", "x", "\n", "\n", Marker, " ", "x">>,
    <<"FEAT", "(", "constructor", ")", ":", "x">>,
    <<"fix", "(", ")", ":", " ", "x">>,
    <<"fix", "(", "api", ":", " ", "x">>,
    <<"chore", ":", " ", "x", "\n", "\n", " ", "\n">>,
    <<"docs", "!", ":", " ", "x", "\n", "x">>,
    <<"x", " ", "the", " ", "docs">>,
    <<"Fix", " ", "and", " ", "feat">>,
    <<"fix", ":", " ", "\n", "\n", "x", "\n", "x">> }

ParserInputs == BoundedMessages \cup ScopedMessages

NoParse == [type |-> "", scope |-> Undefined, breaking |-> FALSE,
            message |-> "", description |-> Undefined]

-----------------------------------------------------------------------------
(* fetchCommits: the record built for one commit of a response page *)

\* "#7" is the text "#" followed by the digits 7.
PrTokens == {"#7"}

\* parseInt of the digits of a PR reference.
parseInt(t) == CASE t = "#7" -> 7 [] OTHER -> 0

\* commit.commit.message.match(/\(#(\d+)\)|\n\n#(\d+)/): the leftmost match.
PrMatches(msg) ==
  {i \in 1..(Len(msg) - 1) :
     \/ /\ msg[i] = "(" /\ msg[i + 1] \in PrTokens
        /\ i + 2 <= Len(msg) /\ msg[i + 2] = ")"
     \/ /\ msg[i] = "\n" /\ msg[i + 1] = "\n"
        /\ i + 2 <= Len(msg) /\ msg[i + 2] \in PrTokens}

ExtractPrNumber(msg) ==
  IF PrMatches(msg) = {} THEN NoNumber
  ELSE LET i == Min(PrMatches(msg)) IN
       IF msg[i] = "(" THEN parseInt(msg[i + 1]) ELSE parseInt(msg[i + 2])

\* api is one element of response.data: [sha, message, author, date], and p
\* the record parsed from its message.
PushedCommit(api, p) ==
  [sha |-> api.sha,
   type |-> p.type,
   scope |-> p.scope,
   message |-> p.message,
   description |-> p.description,
   breaking |-> p.breaking,
   author |-> api.author,
   date |-> api.date,
   prNumber |-> ExtractPrNumber(api.message),
   commitUrl |-> "https://github.com/o/r/commit/" \o ToString(api.sha)]

FetchedCommit(api) == PushedCommit(api, parseConventionalCommit(api.message))

-----------------------------------------------------------------------------
(* enrichCommitsWithPRData: the body of the loop, for one commit *)

\* pr is what fetchPullRequest returned: found = FALSE is null (404).
\* labels is the set of the label names (Array.some does not depend on the
\* order); body = Undefined is null.
LabelsInclude(pr, kw) == \E l \in pr.labels : kw \in KeywordsOf(l)

LabelType(pr, type) ==
  IF LabelsInclude(pr, "feature") THEN "feature"
  ELSE IF LabelsInclude(pr, "bug") \/ LabelsInclude(pr, "fix") THEN "fix"
  ELSE IF LabelsInclude(pr, "doc") THEN "docs"
  ELSE IF LabelsInclude(pr, "perf") THEN "perf"
  ELSE IF LabelsInclude(pr, "refactor") THEN "refactor"
  ELSE IF LabelsInclude(pr, "test") THEN "test"
  ELSE IF LabelsInclude(pr, "build") THEN "build"
  ELSE type

\* !commit.prNumber : undefined and 0 are falsy.
HasPrNumber(commit) == commit.prNumber # NoNumber /\ commit.prNumber # 0

\* EnrichCommit without the `commit.type === 'other'` test: the labels are
\* applied to every commit.
EnrichCommit_AnyType(commit, pr) ==
  IF ~HasPrNumber(commit) \/ ~pr.found THEN commit
  ELSE [commit EXCEPT
          !.breaking = IF LabelsInclude(pr, "breaking") THEN TRUE ELSE @,
          !.type = LabelType(pr, @),
          !.message = IF Len(@) < Len(pr.title) THEN pr.title ELSE @,
          !.description = IF ~Truthy(@) /\ Truthy(pr.body) THEN pr.body ELSE @]

\* EnrichCommit that appends the PR body to the description it finds.
EnrichCommit_AppendBody(commit, pr) ==
  IF ~HasPrNumber(commit) \/ ~pr.found THEN commit
  ELSE [commit EXCEPT
          !.breaking = IF commit.type = "other" /\ LabelsInclude(pr, "breaking")
                       THEN TRUE ELSE @,
          !.type = IF commit.type = "other" THEN LabelType(pr, @) ELSE @,
          !.message = IF Len(@) < Len(pr.title) THEN pr.title ELSE @,
          !.description = IF ~Truthy(pr.body) THEN @
                          ELSE IF Truthy(@) THEN @ \o "\n\n" \o pr.body
                          ELSE pr.body]

EnrichCommit(commit, pr) ==
  IF ~HasPrNumber(commit) \/ ~pr.found THEN commit
  ELSE [commit EXCEPT
          !.breaking = IF commit.type = "other" /\ LabelsInclude(pr, "breaking")
                       THEN TRUE ELSE @,
          !.type = IF commit.type = "other" THEN LabelType(pr, @) ELSE @,
          !.message = IF Len(@) < Len(pr.title) THEN pr.title ELSE @,
          !.description = IF ~Truthy(@) /\ Truthy(pr.body) THEN pr.body ELSE @]

NoCommit == [sha |-> 0, type |-> "other", scope |-> Undefined, message |-> "",
             description |-> Undefined, breaking |-> FALSE, author |-> "",
             date |-> 0, prNumber |-> NoNumber, commitUrl |-> ""]

NoPr == [found |-> FALSE, title |-> "", body |-> Undefined, labels |-> {}]

-----------------------------------------------------------------------------
(* Inputs of the merger run *)

MergeMessages ==
  { <<"chore", ":", " ", "x", " ", "(", "#7", ")">>,
    <<"chore", "!", ":", " ", "x", " ", "(", "#7", ")">>,
    <<"feat", ":", " ", "x", " ", "(", "#7", ")">>,
    <<"fix", "(", "api", ")", ":", " ", "x", "\n", "\n", "#7">>,
    <<"chore", ":", " ", "x", "\n", "\n", "x", " ", "(", "#7", ")">>,
    <<"x", " ", "(", "#7", ")">>,
    <<"x", " ", "#7">>,
    <<Marker, " ", "x", "\n", "\n", "#7">> }

PrTitles == {"", "x (#7)", "a longer title than the commit has"}
PrBodies == {Undefined, "", "body"}
PrLabels == {"Breaking-Change", "feature", "bugfix", "documentation"}

PullRequests ==
  {NoPr} \cup
  [found : {TRUE}, title : PrTitles, body : PrBodies, labels : SUBSET PrLabels]

-----------------------------------------------------------------------------
(* JavaScript objects used as maps *)

\* An object literal {} is modelled by the sequence of its own properties,
\* <<key, value>> in insertion order.  A read of a key that is not an own
\* property goes to Object.prototype: for the keys below it yields a
\* function (truthy), for every other key undefined.
ObjectPrototypeKeys == {"constructor", "toString", "valueOf", "hasOwnProperty",
                        "isPrototypeOf", "toLocaleString"}

OwnKeys(obj) == {obj[i][1] : i \in 1..Len(obj)}

IndexOfKey(obj, k) == CHOOSE i \in 1..Len(obj) : obj[i][1] = k

OwnValue(obj, k) == obj[IndexOfKey(obj, k)][2]

\* obj[k] = v
SetKey(obj, k, v) ==
  IF k \in OwnKeys(obj) THEN [obj EXCEPT ![IndexOfKey(obj, k)] = <<k, v>>]
  ELSE Append(obj, <<k, v>>)

\* A counter value: a number n, or (when text # "") the string text.
Num(n) == [n |-> n, text |-> ""]
IsNum(v) == v.text = ""

FunctionText == "function Object() { [native code] }"

\* (obj[k] || 0) + 1
Increment(obj, k) ==
  IF k \in OwnKeys(obj)
  THEN LET v == OwnValue(obj, k) IN
       IF IsNum(v) THEN Num(v.n + 1) ELSE [n |-> 0, text |-> v.text \o "1"]
  ELSE IF k \in ObjectPrototypeKeys
       THEN [n |-> 0, text |-> FunctionText \o "1"]
       ELSE Num(1)

-----------------------------------------------------------------------------
(* Aggregator *)

\* The declaration order of the keys of commitsByType, grouped and EMOJI_MAP.
TypeOrder == <<"breaking", "feature", "fix", "docs", "perf", "refactor",
               "test", "build", "other">>

EMOJI_MAP == [t \in CommitTypes |->
  CASE t = "breaking" -> "(!)" [] t = "feature" -> "(rocket)"
    [] t = "fix" -> "(bug)" [] t = "docs" -> "(books)" [] t = "perf" -> "(zap)"
    [] t = "refactor" -> "(recycle)" [] t = "test" -> "(test-tube)"
    [] t = "build" -> "(crane)" [] t = "other" -> "(wrench)"]

RECURSIVE CountStats(_, _)
CountStats(cs, stats) ==
  IF cs = <<>> THEN stats
  ELSE LET commit == Head(cs) IN
       CountStats(Tail(cs),
         [stats EXCEPT
            !.commitsByType[commit.type] = @ + 1,
            !.commitsByAuthor =
               SetKey(@, commit.author, Increment(@, commit.author)),
            !.commitsByScope =
               IF Truthy(commit.scope)
               THEN SetKey(@, commit.scope, Increment(@, commit.scope))
               ELSE @,
            !.breakingChanges = IF commit.breaking THEN @ + 1 ELSE @])

calculateStats(cs) ==
  CountStats(cs, [present |-> TRUE,
                  totalCommits |-> Len(cs),
                  commitsByType |-> [t \in CommitTypes |-> 0],
                  commitsByAuthor |-> <<>>,
                  commitsByScope |-> <<>>,
                  breakingChanges |-> 0])

\* stats: undefined
NoStats == [present |-> FALSE, totalCommits |-> 0,
            commitsByType |-> [t \in CommitTypes |-> 0],
            commitsByAuthor |-> <<>>, commitsByScope |-> <<>>,
            breakingChanges |-> 0]

\* GroupByType with the test on commit.breaking inverted.
RECURSIVE GroupByType_Inverted(_, _)
GroupByType_Inverted(cs, grouped) ==
  IF cs = <<>> THEN grouped
  ELSE LET commit == Head(cs) IN
       GroupByType_Inverted(Tail(cs),
         IF ~commit.breaking
         THEN [grouped EXCEPT !["breaking"] = Append(@, commit)]
         ELSE [grouped EXCEPT ![commit.type] = Append(@, commit)])

RECURSIVE GroupByType(_, _)
GroupByType(cs, grouped) ==
  IF cs = <<>> THEN grouped
  ELSE LET commit == Head(cs) IN
       GroupByType(Tail(cs),
         IF commit.breaking
         THEN [grouped EXCEPT !["breaking"] = Append(@, commit)]
         ELSE [grouped EXCEPT ![commit.type] = Append(@, commit)])

\* The groupings are returned as [threw, entries]: entries is
\* Object.entries(grouped), threw tells that the function raised a TypeError.
groupCommitsByType(cs) ==
  LET grouped == GroupByType(cs, [t \in CommitTypes |-> <<>>]) IN
  [threw |-> FALSE,
   entries |-> [i \in 1..Len(TypeOrder) |-> <<TypeOrder[i], grouped[TypeOrder[i]]>>]]

\* if (!grouped[k]) grouped[k] = []; grouped[k].push(commit);
\* For a key inherited from Object.prototype grouped[k] is a function:
\* truthy, and without a push method.
ScopeKey(commit) == IF Truthy(commit.scope) THEN commit.scope ELSE "other"

AuthorKey(commit) == commit.author

GroupKey(commit, groupBy) ==
  IF groupBy = "scope" THEN ScopeKey(commit) ELSE AuthorKey(commit)

RECURSIVE GroupByKey(_, _, _)
GroupByKey(cs, groupBy, grouped) ==
  IF cs = <<>> THEN [threw |-> FALSE, entries |-> grouped]
  ELSE LET commit == Head(cs)
           k == GroupKey(commit, groupBy)
       IN IF k \in OwnKeys(grouped)
          THEN GroupByKey(Tail(cs), groupBy,
                          SetKey(grouped, k, Append(OwnValue(grouped, k), commit)))
          ELSE IF k \in ObjectPrototypeKeys
               THEN [threw |-> TRUE, entries |-> grouped]
               ELSE GroupByKey(Tail(cs), groupBy, SetKey(grouped, k, <<commit>>))

groupCommitsByScope(cs) == GroupByKey(cs, "scope", <<>>)

groupCommitsByAuthor(cs) == GroupByKey(cs, "author", <<>>)

-----------------------------------------------------------------------------
(* Renderer *)

\* new Date().toISOString(), and its format(..., 'yyyy-MM-dd').
NowISO == "2026-11-05T12:00:00.000Z"
Today == "2026-11-05"

\* The document is the sequence of the lines of lines.join('\n').  A line is
\* its leading marker ("#", "##", "###", "-", ">", "  -" or none) and the text
\* after it.  `of` is the sha of the commit a commit line was formatted from,
\* `group` the key of a section header, `scoped` whether formatCommit put the
\* scope annotation into the line.
TextLine(kind, marker, text) ==
  [kind |-> kind, marker |-> marker, text |-> text, of |-> 0, group |-> "",
   scoped |-> FALSE]

Blank == TextLine("blank", "", "")

SectionLine(kind, group, text) ==
  [kind |-> kind, marker |-> "##", text |-> text, of |-> 0, group |-> group,
   scoped |-> FALSE]

formatCommit(commit, includeScope) ==
  LET emoji == EMOJI_MAP[commit.type]
      scope == IF Truthy(commit.scope) /\ includeScope
               THEN "(" \o commit.scope \o ") " ELSE ""
      prLink == IF HasPrNumber(commit)
                THEN " (#" \o ToString(commit.prNumber) \o ")" ELSE ""
      breaking == IF commit.breaking THEN " [BREAKING]" ELSE ""
  IN emoji \o " " \o scope \o commit.message \o breaking \o prLink

\* lines.push(`- ${formatCommit(...)}`) and, for a commit with a description,
\* the indented line(s) of the description.
RECURSIVE CommitLines(_, _)
CommitLines(cs, includeScope) ==
  IF cs = <<>> THEN <<>>
  ELSE LET commit == Head(cs)
           line == [kind |-> "commit", marker |-> "-",
                    text |-> formatCommit(commit, includeScope),
                    of |-> commit.sha, group |-> "",
                    scoped |-> Truthy(commit.scope) /\ includeScope]
           body == IF Truthy(commit.description)
                   THEN <<TextLine("body", "  -", commit.description)>>
                   ELSE <<>>
       IN <<line>> \o body \o CommitLines(Tail(cs), includeScope)

\* group.charAt(0).toUpperCase() + group.slice(1), for the nine categories.
Capitalize(t) ==
  CASE t = "breaking" -> "Breaking" [] t = "feature" -> "Feature"
    [] t = "fix" -> "Fix" [] t = "docs" -> "Docs" [] t = "perf" -> "Perf"
    [] t = "refactor" -> "Refactor" [] t = "test" -> "Test"
    [] t = "build" -> "Build" [] t = "other" -> "Other" [] OTHER -> t

SectionTitle(groupBy, group) ==
  CASE groupBy = "type" -> EMOJI_MAP[group] \o " " \o Capitalize(group)
    [] groupBy = "scope" -> "(package) " \o group
    [] groupBy = "author" -> "(person) " \o group

\* The group sections with formatCommit(commit) called without its second
\* argument, as the Breaking Changes section calls it.
RECURSIVE GroupSections_Annotated(_, _)
GroupSections_Annotated(entries, groupBy) ==
  IF entries = <<>> THEN <<>>
  ELSE LET group == Head(entries)[1]
           cs == Head(entries)[2]
       IN (IF cs = <<>> \/ group = "breaking" THEN <<>>
           ELSE <<SectionLine(groupBy, group, SectionTitle(groupBy, group)),
                  Blank>>
                \o CommitLines(cs, TRUE) \o <<Blank>>)
          \o GroupSections_Annotated(Tail(entries), groupBy)

\* for (const [group, commits] of Object.entries(groupedCommits)) { ... }
RECURSIVE GroupSections(_, _)
GroupSections(entries, groupBy) ==
  IF entries = <<>> THEN <<>>
  ELSE LET group == Head(entries)[1]
           cs == Head(entries)[2]
       IN (IF cs = <<>> \/ group = "breaking" THEN <<>>
           ELSE <<SectionLine(groupBy, group, SectionTitle(groupBy, group)),
                  Blank>>
                \o CommitLines(cs, groupBy # "scope") \o <<Blank>>)
          \o GroupSections(Tail(entries), groupBy)

\* entries.sort(([, a], [, b]) => b - a): stable, descending by count.  When
\* a count is not a number b - a is NaN and the order is left to the
\* implementation; the model then keeps the insertion order.
RECURSIVE InsertByCount(_, _)
InsertByCount(sorted, e) ==
  IF sorted = <<>> THEN <<e>>
  ELSE IF Head(sorted)[2].n >= e[2].n
       THEN <<Head(sorted)>> \o InsertByCount(Tail(sorted), e)
       ELSE <<e>> \o sorted

RECURSIVE SortByCount(_, _)
SortByCount(entries, sorted) ==
  IF entries = <<>> THEN sorted
  ELSE SortByCount(Tail(entries), InsertByCount(sorted, Head(entries)))

SortedEntries(obj) ==
  IF \A i \in 1..Len(obj) : IsNum(obj[i][2]) THEN SortByCount(obj, <<>>)
  ELSE obj

CountText(v) == IF IsNum(v) THEN ToString(v.n) ELSE v.text

CountLines(entries, emoji) ==
  [i \in 1..Len(entries) |->
     TextLine("count", "-",
              emoji \o " " \o entries[i][1] \o ": " \o CountText(entries[i][2]))]

StatsLines(stats) ==
  LET types == SelectSeq(TypeOrder, LAMBDA t : stats.commitsByType[t] > 0) IN
  <<SectionLine("stats", "", "(chart) Detailed Statistics"), Blank,
    TextLine("heading", "###", "Commits by Type")>>
  \o [i \in 1..Len(types) |->
        TextLine("count", "-", EMOJI_MAP[types[i]] \o " " \o types[i] \o ": "
                               \o ToString(stats.commitsByType[types[i]]))]
  \o (IF Len(stats.commitsByScope) > 0
      THEN <<Blank, TextLine("heading", "###", "Commits by Scope")>>
           \o CountLines(SortedEntries(stats.commitsByScope), "(package)")
      ELSE <<>>)
  \o <<Blank, TextLine("heading", "###", "Commits by Author")>>
  \o CountLines(SortedEntries(stats.commitsByAuthor), "(person)")

HeaderLines(releaseNotes) ==
  <<TextLine("title", "#",
             "Release Notes" \o (IF Truthy(releaseNotes.version)
                                 THEN " (" \o releaseNotes.version \o ")"
                                 ELSE "")),
    TextLine("generated", ">", "Generated on " \o Today)>>
  \o (IF releaseNotes.stats.present
      THEN <<TextLine("summary", ">",
               "Total Commits: " \o ToString(releaseNotes.stats.totalCommits)
               \o " | Breaking Changes: "
               \o ToString(releaseNotes.stats.breakingChanges)), Blank>>
      ELSE <<Blank>>)

BreakingSection(releaseNotes) ==
  IF Len(releaseNotes.breakingChanges) > 0
  THEN <<SectionLine("breaking", "", "(!) Breaking Changes"), Blank>>
       \o CommitLines(releaseNotes.breakingChanges, TRUE) \o <<Blank>>
  ELSE <<>>

\* switch (groupBy) { case 'type': ... }
GroupedCommits(cs, groupBy) ==
  CASE groupBy = "type" -> groupCommitsByType(cs)
    [] groupBy = "scope" -> groupCommitsByScope(cs)
    [] groupBy = "author" -> groupCommitsByAuthor(cs)

\* The document, given the grouping: [threw, lines], threw when the
\* grouping raised.
MarkdownOf(releaseNotes, groupBy, groupedCommits) ==
  IF groupedCommits.threw THEN [threw |-> TRUE, lines |-> <<>>]
  ELSE [threw |-> FALSE,
        lines |-> HeaderLines(releaseNotes) \o BreakingSection(releaseNotes)
                  \o GroupSections(groupedCommits.entries, groupBy)
                  \o (IF releaseNotes.stats.present
                      THEN StatsLines(releaseNotes.stats) ELSE <<>>)]

generateMarkdown(releaseNotes, groupBy) ==
  MarkdownOf(releaseNotes, groupBy,
             GroupedCommits(releaseNotes.commits, groupBy))

\* .replace(/^#+\s*/gm, '').replace(/^[-*]\s*/gm, '') : a heading or bullet
\* marker at the start of a line is removed with the space after it.
StripMarker(line) ==
  IF line.marker \in {"#", "##", "###", "-"} THEN [line EXCEPT !.marker = ""]
  ELSE line

\* .trim() : the blank lines at both ends go.
RECURSIVE TrimLines(_)
TrimLines(lines) ==
  IF lines # <<>> /\ Head(lines) = Blank THEN TrimLines(Tail(lines))
  ELSE IF lines # <<>> /\ lines[Len(lines)] = Blank
       THEN TrimLines(SubSeq(lines, 1, Len(lines) - 1))
       ELSE lines

PlainTextOf(md) ==
  IF md.threw THEN md
  ELSE [threw |-> FALSE,
        lines |-> TrimLines([i \in 1..Len(md.lines) |-> StripMarker(md.lines[i])])]

generatePlainText(releaseNotes, groupBy) ==
  PlainTextOf(generateMarkdown(releaseNotes, groupBy))

\* JSON.stringify: objects as <<key, value>> pairs, properties whose value
\* is undefined are left out.
Defined(pairs) == SelectSeq(pairs, LAMBDA p : p[2] # Undefined)

JsonCommit(c) ==
  <<<<"sha", c.sha>>, <<"type", c.type>>>>
  \o Defined(<<<<"scope", c.scope>>>>)
  \o <<<<"message", c.message>>>>
  \o Defined(<<<<"description", c.description>>>>)
  \o <<<<"breaking", c.breaking>>, <<"author", c.author>>, <<"date", c.date>>>>
  \o (IF c.prNumber # NoNumber THEN <<<<"prNumber", c.prNumber>>>> ELSE <<>>)
  \o <<<<"commitUrl", c.commitUrl>>>>

JsonCounts(obj) ==
  [i \in 1..Len(obj) |->
     <<obj[i][1], IF IsNum(obj[i][2]) THEN obj[i][2].n ELSE obj[i][2].text>>]

JsonStats(stats) ==
  <<<<"totalCommits", stats.totalCommits>>,
    <<"commitsByType",
      [i \in 1..Len(TypeOrder) |->
         <<TypeOrder[i], stats.commitsByType[TypeOrder[i]]>>]>>,
    <<"commitsByAuthor", JsonCounts(stats.commitsByAuthor)>>,
    <<"commitsByScope", JsonCounts(stats.commitsByScope)>>,
    <<"breakingChanges", stats.breakingChanges>>>>

JsonStringify(releaseNotes) ==
  Defined(<<<<"version", releaseNotes.version>>>>)
  \o <<<<"date", releaseNotes.date>>,
       <<"breakingChanges",
         [i \in 1..Len(releaseNotes.breakingChanges) |->
            JsonCommit(releaseNotes.breakingChanges[i])]>>,
       <<"commits",
         [i \in 1..Len(releaseNotes.commits) |->
            JsonCommit(releaseNotes.commits[i])]>>>>
  \o (IF releaseNotes.stats.present
      THEN <<<<"stats", JsonStats(releaseNotes.stats)>>>> ELSE <<>>)

\* commits.filter(c => c.breaking) taken for the commits of type 'breaking'.
BreakingChanges_ByType(cs) == SelectSeq(cs, LAMBDA c : c.type = "breaking")

\* commits.filter(c => c.breaking)
BreakingChanges(cs) == SelectSeq(cs, LAMBDA c : c.breaking)

\* The non-breaking subsequence without its filter.
RegularCommits_All(cs) == cs

\* commits.filter(c => !c.breaking)
RegularCommits(cs) == SelectSeq(cs, LAMBDA c : ~c.breaking)

ReleaseNotesOf(cs, opts) ==
  [version |-> opts.version,
   date |-> NowISO,
   breakingChanges |-> BreakingChanges(cs),
   commits |-> RegularCommits(cs),
   stats |-> IF opts.includeStats THEN calculateStats(cs) ELSE NoStats]

\* switch (format) { ... }: [threw, lines]
Encode(releaseNotes, opts) ==
  CASE opts.format = "markdown" -> generateMarkdown(releaseNotes, opts.groupBy)
    [] opts.format = "json" ->
         [threw |-> FALSE,
          lines |-> <<[kind |-> "json", marker |-> "", text |-> "", of |-> 0,
                       group |-> "", scoped |-> FALSE,
                       value |-> JsonStringify(releaseNotes)]>>]
    [] opts.format = "text" -> generatePlainText(releaseNotes, opts.groupBy)
    [] OTHER -> [threw |-> TRUE, lines |-> <<>>]

\* What the call ends with: threw is "" or the error raised (a TypeError of
\* the grouping, or the Error of the default case), notes the ReleaseNotes
\* object that was built, text the returned string (as lines).
Outcome(releaseNotes, opts, out) ==
  [threw |-> IF ~out.threw THEN ""
             ELSE IF opts.format \in {"markdown", "text"} THEN "TypeError"
             ELSE "Unsupported format",
   notes |-> releaseNotes,
   text |-> out.lines]

Rendered(releaseNotes, opts) ==
  Outcome(releaseNotes, opts, Encode(releaseNotes, opts))

generateReleaseNotes(cs, opts) == Rendered(ReleaseNotesOf(cs, opts), opts)

NoOptions == [version |-> Undefined, groupBy |-> "", format |-> "",
              includeStats |-> FALSE]

NoResult == [threw |-> "", text |-> <<>>,
             notes |-> [version |-> Undefined, date |-> "",
                        breakingChanges |-> <<>>, commits |-> <<>>,
                        stats |-> NoStats]]

-----------------------------------------------------------------------------
(* Inputs of the pipeline *)

PipelineMessages ==
  { <<"fix", "(", "api", ")", "!", ":", " ", "x">>,
    <<"feat", ":", " ", "x", " ", "(", "#7", ")">>,
    <<"chore", ":", " ", "x", " ", "(", "#7", ")">>,
    <<"x", "\n", "\n", Marker, " ", "x">>,
    <<"feat", "(", "constructor", ")", ":", " ", "x">>,
    <<"x">>,
    <<"docs", "!", ":", " ", "x", "\n", "x">>,
    <<"fix", "(", "other", ")", ":", " ", "x">>,
    <<"docs", "(", "breaking", ")", ":", " ", "x">> }

Authors == {"alice", "constructor"}

PipelinePrs ==
  { NoPr,
    [found |-> TRUE, title |-> "a longer title than the commit has",
     body |-> "body", labels |-> {"Breaking-Change", "feature"}],
    [found |-> TRUE, title |-> "x", body |-> Undefined,
     labels |-> {"Breaking-Change"}] }

Formats == {"markdown", "json", "text", "yaml"}

OptionSets == [version : {Undefined, "1.2.0"},
               groupBy : {"type", "scope", "author"},
               format : Formats,
               includeStats : BOOLEAN]

ApiCommit(n, msg, author) ==
  [sha |-> n, message |-> msg, author |-> author, date |-> 100 - n]

-----------------------------------------------------------------------------
(* fetchCommits: the arguments, the locals and the remote commit API *)

\* An optional argument that was not given: fromCommit / toCommit, and
\* fromDate / toDate.  The sha of the i-th newest commit is i, its date
\* 100 - i (ApiCommit).
NoSha == 0
NoDate == -1

NoCall == [fromDate |-> NoDate, toDate |-> NoDate,
           fromCommit |-> NoSha, toCommit |-> NoSha]

NoLoop == [lookup |-> "", page |-> 0, fromDate |-> NoDate,
           reachedFromCommit |-> FALSE, response |-> <<>>, commits |-> <<>>]

\* const commits = []; let page = 1; let reachedFromCommit = !fromCommit;
\* lookup is how GET /commits/{fromCommit} answers during this call: "ok",
\* or "fails" on every attempt.
StartLoop(c, lookup) ==
  [lookup |-> lookup, page |-> 1, fromDate |-> c.fromDate,
   reachedFromCommit |-> c.fromCommit = NoSha,
   response |-> <<>>, commits |-> <<>>]

\* GET /repos/{owner}/{repo}/commits/{sha}: the positions of the commit.
GetCommit(repo, sha) == {i \in 1..Len(repo) : repo[i].sha = sha}

\* GET /repos/{owner}/{repo}/commits with sha, since, page and per_page:
\* the history from the commit sha on (from the head without it), newest
\* first, of which the commits dated since or later are listed, cut into
\* pages.
ListCommits(repo, sha, since, page) ==
  LET start == IF sha = NoSha THEN 1 ELSE Min(GetCommit(repo, sha))
      listed == SelectSeq(SubSeq(repo, start, Len(repo)),
                          LAMBDA c : since = NoDate \/ c.date >= since)
  IN SubSeq(listed, (page - 1) * perPage + 1,
            Min({page * perPage, Len(listed)}))

\* if (fromCommit && !fromDate && !reachedFromCommit)
ShaFiltering(c, l) ==
  c.fromCommit # NoSha /\ l.fromDate = NoDate /\ ~l.reachedFromCommit

\* The body of `for (const commit of response.data)` for the first commit
\* left of the response, and page++ after the last one.
ProcessedCommit(c, l, commit, rest) ==
  LET found == ShaFiltering(c, l) /\ commit.sha = c.fromCommit
      skipped == ShaFiltering(c, l) /\ commit.sha # c.fromCommit
      late == c.toDate # NoDate /\ commit.date > c.toDate
  IN [l EXCEPT !.reachedFromCommit = @ \/ found,
               !.commits = IF skipped \/ late THEN @
                           ELSE Append(@, FetchedCommit(commit)),
               !.response = rest,
               !.page = IF rest = <<>> THEN @ + 1 ELSE @]

-----------------------------------------------------------------------------
(* Inputs of the fetch run *)

FetchMessages ==
  { <<"x">>, <<"feat", ":", " ", "x", " ", "(", "#7", ")">> }

\* The repositories: up to MaxHistory commits, newest first.
Histories ==
  UNION {{[i \in 1..n |-> ApiCommit(i, m[i], "alice")] :
            m \in [1..n -> FetchMessages]} : n \in 0..MaxHistory}

\* The calls on a repository: fromCommit one of its commits, a sha it does
\* not list, or absent; toCommit one of its commits or absent; the dates
\* absent or the date of the second newest commit.
CallsOf(repo) ==
  [fromDate : {NoDate, 98}, toDate : {NoDate, 98},
   fromCommit : 0..(Len(repo) + 1), toCommit : 0..Len(repo)]

-----------------------------------------------------------------------------
(* The parser run: one message, parsed once *)

InitParse ==
  /\ pc = "message"
  /\ message \in ParserInputs
  /\ parsed = NoParse
  /\ mCommit = NoCommit /\ mPr = NoPr /\ mOnce = NoCommit /\ mTwice = NoCommit
  /\ commits = <<>> /\ cursor = 0 /\ history = <<>>
  /\ options = NoOptions /\ result = NoResult
  /\ remote = <<>> /\ call = NoCall /\ loop = NoLoop /\ fetched = <<>>

ParseMessage ==
  /\ pc = "message"
  /\ parsed' = parseConventionalCommit(message)
  /\ pc' = "parsed"
  /\ UNCHANGED <<message, mergeVars, pipeVars, fetchVars>>

NextParse == ParseMessage

SpecParse == InitParse /\ [][NextParse]_vars

-----------------------------------------------------------------------------
(* The merger run: one fetched commit, enriched twice with the same PR *)

InitMerge ==
  /\ pc = "merge"
  /\ \E m \in MergeMessages : mCommit = FetchedCommit(ApiCommit(1, m, "alice"))
  /\ mPr \in PullRequests
  /\ mOnce = NoCommit /\ mTwice = NoCommit
  /\ message = <<>> /\ parsed = NoParse
  /\ commits = <<>> /\ cursor = 0 /\ history = <<>>
  /\ options = NoOptions /\ result = NoResult
  /\ remote = <<>> /\ call = NoCall /\ loop = NoLoop /\ fetched = <<>>

MergeOnce ==
  /\ pc = "merge"
  /\ mOnce' = EnrichCommit(mCommit, mPr)
  /\ pc' = "once"
  /\ UNCHANGED <<mCommit, mPr, mTwice, parseVars, pipeVars, fetchVars>>

MergeAgain ==
  /\ pc = "once"
  /\ mTwice' = EnrichCommit(mOnce, mPr)
  /\ pc' = "twice"
  /\ UNCHANGED <<mCommit, mPr, mOnce, parseVars, pipeVars, fetchVars>>

NextMerge == MergeOnce \/ MergeAgain

SpecMerge == InitMerge /\ [][NextMerge]_vars

-----------------------------------------------------------------------------
(* The pipeline of the generate_release_notes and analyze_commits tools:    *)
(* fetchCommits, enrichCommitsWithPRData, generateReleaseNotes              *)

Init ==
  /\ pc = "fetch"
  /\ commits = <<>> /\ cursor = 0 /\ history = <<>>
  /\ options = NoOptions /\ result = NoResult
  /\ remote = <<>> /\ call = NoCall /\ loop = NoLoop /\ fetched = <<>>
  /\ message = <<>> /\ parsed = NoParse
  /\ mCommit = NoCommit /\ mPr = NoPr /\ mOnce = NoCommit /\ mTwice = NoCommit

\* One commit of a response page is parsed and pushed.
FetchCommit ==
  /\ pc = "fetch"
  /\ Len(commits) < MaxCommits
  /\ \E m \in PipelineMessages, a \in Authors :
       /\ commits' = Append(commits,
                            FetchedCommit(ApiCommit(Len(commits) + 1, m, a)))
       /\ history' = Append(history, [raw |-> m, pr |-> NoPr])
  /\ UNCHANGED <<pc, cursor, options, result, parseVars, mergeVars,
                 fetchVars>>

\* An empty page ends the fetch loop; the enrichment loop starts.
FetchEnd ==
  /\ pc = "fetch"
  /\ pc' = "enrich"
  /\ cursor' = 1
  /\ UNCHANGED <<commits, history, options, result, parseVars, mergeVars,
                 fetchVars>>

\* if (!commit.prNumber) continue;
EnrichSkip ==
  /\ pc = "enrich"
  /\ cursor <= Len(commits)
  /\ ~HasPrNumber(commits[cursor])
  /\ cursor' = cursor + 1
  /\ UNCHANGED <<pc, commits, history, options, result, parseVars,
                 mergeVars, fetchVars>>

\* fetchPullRequest answers (a pull request, or null on a 404) and the
\* commit is updated in place.
EnrichFromPr ==
  /\ pc = "enrich"
  /\ cursor <= Len(commits)
  /\ HasPrNumber(commits[cursor])
  /\ \E pr \in PipelinePrs :
       /\ commits' = [commits EXCEPT ![cursor] = EnrichCommit(@, pr)]
       /\ history' = [history EXCEPT ![cursor].pr = pr]
  /\ cursor' = cursor + 1
  /\ UNCHANGED <<pc, options, result, parseVars, mergeVars, fetchVars>>

\* fetchPullRequest rethrows every error but a 404: the tool call fails and
\* nothing is rendered.
EnrichThrows ==
  /\ pc = "enrich"
  /\ cursor <= Len(commits)
  /\ HasPrNumber(commits[cursor])
  /\ pc' = "failed"
  /\ UNCHANGED <<commits, cursor, history, options, result, parseVars,
                 mergeVars, fetchVars>>

\* The enriched commits are handed to generateReleaseNotes.
Generate ==
  /\ pc = "enrich"
  /\ cursor > Len(commits)
  /\ \E opts \in OptionSets :
       /\ options' = opts
       /\ result' = generateReleaseNotes(commits, opts)
  /\ pc' = "done"
  /\ UNCHANGED <<commits, cursor, history, parseVars, mergeVars, fetchVars>>

Next ==
  \/ FetchCommit
  \/ FetchEnd
  \/ EnrichSkip
  \/ EnrichFromPr
  \/ EnrichThrows
  \/ Generate

Spec == Init /\ [][Next]_vars

-----------------------------------------------------------------------------
(* The fetch run: fetchCommits called twice with the same arguments on the  *)
(* same repository, first with the lookup of fromCommit answering, then     *)
(* with the lookup failing on every attempt                                 *)

InitFetch ==
  /\ pc = "page"
  /\ remote \in Histories
  /\ call \in CallsOf(remote)
  /\ loop = StartLoop(call, "ok")
  /\ fetched = <<>>
  /\ message = <<>> /\ parsed = NoParse
  /\ mCommit = NoCommit /\ mPr = NoPr /\ mOnce = NoCommit /\ mTwice = NoCommit
  /\ commits = <<>> /\ cursor = 0 /\ history = <<>>
  /\ options = NoOptions /\ result = NoResult

\* if (fromCommit && !reachedFromCommit) { try { ... } catch { ... } }
LookupFromCommit ==
  /\ pc = "page"
  /\ call.fromCommit # NoSha /\ ~loop.reachedFromCommit
  /\ loop' = IF loop.lookup = "ok" /\ GetCommit(remote, call.fromCommit) # {}
             THEN [loop EXCEPT
                     !.fromDate =
                        remote[Min(GetCommit(remote, call.fromCommit))].date,
                     !.reachedFromCommit = TRUE]
             ELSE loop
  /\ pc' = "request"
  /\ UNCHANGED <<remote, call, fetched, parseVars, mergeVars, pipeVars>>

\* The page is requested; an empty page ends the loop and the call returns
\* commits.
RequestPage ==
  /\ \/ pc = "request"
     \/ pc = "page" /\ (call.fromCommit = NoSha \/ loop.reachedFromCommit)
  /\ LET data == ListCommits(remote, call.toCommit, loop.fromDate, loop.page)
     IN /\ loop' = [loop EXCEPT !.response = data]
        /\ IF data = <<>>
           THEN /\ pc' = "returned"
                /\ fetched' = Append(fetched, [lookup |-> loop.lookup,
                                               commits |-> loop.commits])
           ELSE /\ pc' = "process"
                /\ UNCHANGED fetched
  /\ UNCHANGED <<remote, call, parseVars, mergeVars, pipeVars>>

\* One commit of the page is filtered and pushed.
ProcessCommit ==
  /\ pc = "process"
  /\ loop' = ProcessedCommit(call, loop, Head(loop.response),
                             Tail(loop.response))
  /\ pc' = IF Tail(loop.response) = <<>> THEN "page" ELSE "process"
  /\ UNCHANGED <<remote, call, fetched, parseVars, mergeVars, pipeVars>>

\* The same call again, the lookup of fromCommit now failing.
CallAgain ==
  /\ pc = "returned"
  /\ Len(fetched) = 1
  /\ loop' = StartLoop(call, "fails")
  /\ pc' = "page"
  /\ UNCHANGED <<remote, call, fetched, parseVars, mergeVars, pipeVars>>

NextFetch ==
  \/ LookupFromCommit
  \/ RequestPage
  \/ ProcessCommit
  \/ CallAgain

SpecFetch == InitFetch /\ [][NextFetch]_vars

-----------------------------------------------------------------------------
(* Helpers of the properties *)

RECURSIVE SumTypes(_, _)
SumTypes(byType, types) ==
  IF types = <<>> THEN 0
  ELSE byType[Head(types)] + SumTypes(byType, Tail(types))

RECURSIVE SumEntries(_)
SumEntries(obj) ==
  IF obj = <<>> THEN 0 ELSE Head(obj)[2].n + SumEntries(Tail(obj))

AllNumbers(obj) == \A i \in 1..Len(obj) : IsNum(obj[i][2])

\* The lines of the document that were formatted from the commit sha.
CommitLinesOf(text, sha) ==
  {i \in 1..Len(text) : text[i].kind = "commit" /\ text[i].of = sha}

SectionKinds == {"breaking", "type", "scope", "author", "stats"}

\* The header of the section line i belongs to.
SectionOf(text, i) ==
  LET hs == {j \in 1..i : text[j].kind \in SectionKinds} IN
  IF hs = {} THEN Blank ELSE text[Max(hs)]

\* The message starts with <type>[(<scope>)]!: , whatever follows.
HasBangPrefix(msg) ==
  /\ Len(msg) >= 1 /\ toLowerCase(msg[1]) \in TypeTokens
  /\ LET p == IF ScopeClose(msg) > 0 THEN ScopeClose(msg) + 1 ELSE 2 IN
       p + 1 <= Len(msg) /\ msg[p] = "!" /\ msg[p + 1] = ":"

\* The text the title is taken from: group 4 of a grammar match, else the
\* first line.
TitleSource(msg) ==
  IF MatchConventional(msg).ok THEN MatchConventional(msg).msg
  ELSE FirstLine(msg)

IsBlank(toks) == \A i \in 1..Len(toks) : IsSpace(toks[i])

\* The shas of a commit sequence, in its order.
Shas(cs) == [k \in 1..Len(cs) |-> cs[k].sha]

\* fromCommit and the commits newer than it, newest first: what a call
\* with no other filter than fromCommit is to return.
SinceFromCommit(repo, sha) ==
  [k \in 1..Min(GetCommit(repo, sha)) |-> FetchedCommit(repo[k])]

-----------------------------------------------------------------------------
(* Properties *)

\* C1: for the commit collection handed to calculateStats, the nine
\* per-category counts sum to the total commit count, and the per-author
\* counts are numbers that sum to the total commit count.
C1_StatsSums ==
  pc = "done" /\ options.includeStats =>
    LET stats == result.notes.stats IN
    /\ stats.totalCommits = Len(commits)
    /\ SumTypes(stats.commitsByType, TypeOrder) = stats.totalCommits
    /\ AllNumbers(stats.commitsByAuthor)
    /\ SumEntries(stats.commitsByAuthor) = stats.totalCommits

\* C2: a message that contains the marker BREAKING CHANGE: is parsed with
\* breaking = true, whether or not it matches the structured grammar.
C2_MarkerImpliesBreaking ==
  pc = "parsed" /\ IncludesMarker(message) => parsed.breaking

\* C2 witness: a message that matches the grammar without `!` and has the
\* marker in its body was parsed as breaking.
C2_Witness ==
  /\ pc = "parsed"
  /\ IncludesMarker(message)
  /\ MatchConventional(message).ok
  /\ ~MatchConventional(message).bang
  /\ parsed.breaking

\* C3 (as claimed): a commit handed to the renderer is breaking iff its
\* message has the marker, or its prefix carries `!`, or a pull request with
\* a label containing `breaking` was merged into it.
C3_BreakingIffAnySignal ==
  pc = "done" =>
    \A i \in 1..Len(commits) :
      commits[i].breaking <=>
        \/ IncludesMarker(history[i].raw)
        \/ HasBangPrefix(history[i].raw)
        \/ history[i].pr.found /\ LabelsInclude(history[i].pr, "breaking")

\* C3 (amended): a commit handed to the renderer is breaking iff its message
\* has the marker, or its message matches the structured grammar with the
\* `!` indicator, or its parsed category was `other` and a pull request with
\* a label containing `breaking` was merged into it.
C3_BreakingIffSignalApplied ==
  pc = "done" =>
    \A i \in 1..Len(commits) :
      commits[i].breaking <=>
        \/ IncludesMarker(history[i].raw)
        \/ MatchConventional(history[i].raw).ok
             /\ MatchConventional(history[i].raw).bang
        \/ /\ history[i].pr.found
           /\ LabelsInclude(history[i].pr, "breaking")
           /\ parseConventionalCommit(history[i].raw).type = "other"

\* C3 witness: a commit of parsed category `other`, without marker and
\* without `!`, became breaking by the label of its pull request.
C3_Witness ==
  /\ pc = "done"
  /\ \E i \in 1..Len(commits) :
       /\ commits[i].breaking
       /\ ~IncludesMarker(history[i].raw)
       /\ ~HasBangPrefix(history[i].raw)
       /\ history[i].pr.found
       /\ LabelsInclude(history[i].pr, "breaking")

\* C4: enriching a commit a second time with the same pull request leaves
\* the record as the first pass left it.
C4_MergeIdempotent ==
  pc = "twice" => mTwice = mOnce

\* C4 witness: the first pass changed the category of an `other` commit,
\* and the second pass has run.
C4_Witness ==
  /\ pc = "twice"
  /\ mCommit.type = "other"
  /\ mOnce.type # "other"
  /\ mOnce.message # mCommit.message

\* C5 (as claimed): merging a pull request into a commit whose category is
\* not `other` changes no field of the commit record.
C5_NonOtherUntouched ==
  pc \in {"once", "twice"} /\ mCommit.type # "other" => mOnce = mCommit

\* C5 (amended): merging a pull request into a commit whose category is not
\* `other` changes neither the category nor the breaking flag; the title is
\* replaced by the PR title exactly when that is strictly longer, a missing
\* or empty body is replaced by a non-empty PR body, and no other field
\* changes.
C5_NonOtherKeepsClassification ==
  pc \in {"once", "twice"} /\ mCommit.type # "other" =>
    /\ mOnce.type = mCommit.type
    /\ mOnce.breaking = mCommit.breaking
    /\ mOnce.sha = mCommit.sha
    /\ mOnce.scope = mCommit.scope
    /\ mOnce.author = mCommit.author
    /\ mOnce.date = mCommit.date
    /\ mOnce.prNumber = mCommit.prNumber
    /\ mOnce.commitUrl = mCommit.commitUrl
    /\ mOnce.message =
         IF HasPrNumber(mCommit) /\ mPr.found
            /\ Len(mCommit.message) < Len(mPr.title)
         THEN mPr.title ELSE mCommit.message
    /\ mOnce.description =
         IF HasPrNumber(mCommit) /\ mPr.found
            /\ ~Truthy(mCommit.description) /\ Truthy(mPr.body)
         THEN mPr.body ELSE mCommit.description

\* C5 witness: a commit of a category other than `other` was merged with a
\* pull request labelled feature and breaking, and got the PR title.
C5_Witness ==
  /\ pc = "once"
  /\ mCommit.type \notin {"other", "feature"}
  /\ ~mCommit.breaking
  /\ HasPrNumber(mCommit) /\ mPr.found
  /\ LabelsInclude(mPr, "feature") /\ LabelsInclude(mPr, "breaking")
  /\ mOnce.message = mPr.title /\ mOnce.message # mCommit.message

\* C6: in the category-grouped markdown document every breaking commit is
\* listed in the Breaking Changes section and nowhere else, and every
\* non-breaking commit is listed in the section of its own category.
C6_CategoryModeSections ==
  pc = "done" /\ options.groupBy = "type" /\ options.format = "markdown" =>
    /\ result.threw = ""
    /\ \A i \in 1..Len(commits) :
         LET c == commits[i]
             ls == CommitLinesOf(result.text, c.sha)
         IN /\ ls # {}
            /\ \A l \in ls :
                 LET s == SectionOf(result.text, l) IN
                 IF c.breaking THEN s.kind = "breaking"
                 ELSE s.kind = "type" /\ s.group = c.type

\* C6 witness: a breaking commit of category fix and a non-breaking feature
\* were rendered in category mode.
C6_Witness ==
  /\ pc = "done" /\ options.groupBy = "type" /\ options.format = "markdown"
  /\ \E i, j \in 1..Len(commits) :
       /\ commits[i].breaking /\ commits[i].type = "fix"
       /\ ~commits[j].breaking /\ commits[j].type = "feature"

\* C7 (as claimed): in the scope-grouped and the author-grouped markdown
\* document every breaking commit is listed in the section of its scope
\* (`other` without a scope), respectively of its author.
C7_BreakingInOwnGroup ==
  pc = "done" /\ options.groupBy \in {"scope", "author"}
    /\ options.format = "markdown" /\ result.threw = "" =>
    \A i \in 1..Len(commits) :
      commits[i].breaking =>
        \E l \in CommitLinesOf(result.text, commits[i].sha) :
          LET s == SectionOf(result.text, l) IN
          /\ s.kind = options.groupBy
          /\ s.group = IF options.groupBy = "scope" THEN ScopeKey(commits[i])
                       ELSE AuthorKey(commits[i])

\* C7 (amended): in the scope-grouped and the author-grouped markdown
\* document a breaking commit is listed in the Breaking Changes section and
\* in no scope or author section: only the non-breaking commits are grouped.
C7_BreakingOnlyInBreakingSection ==
  pc = "done" /\ options.groupBy \in {"scope", "author"}
    /\ options.format = "markdown" /\ result.threw = "" =>
    \A i \in 1..Len(commits) :
      commits[i].breaking =>
        /\ CommitLinesOf(result.text, commits[i].sha) # {}
        /\ \A l \in CommitLinesOf(result.text, commits[i].sha) :
             SectionOf(result.text, l).kind = "breaking"

\* C7 witness: a breaking commit with a scope was rendered in scope mode,
\* next to a non-breaking commit that has its own section.
C7_Witness ==
  /\ pc = "done" /\ options.groupBy = "scope" /\ options.format = "markdown"
  /\ result.threw = ""
  /\ \E i, j \in 1..Len(commits) :
       /\ commits[i].breaking /\ Truthy(commits[i].scope)
       /\ ~commits[j].breaking
       /\ \E l \in CommitLinesOf(result.text, commits[j].sha) :
            SectionOf(result.text, l).kind = "scope"

\* C8: generateReleaseNotes fails with the unsupported-format error and no
\* text for an encoding other than markdown, json and text; for each of the
\* three it returns a text and raises no error.
C8_FormatDispatch ==
  pc = "done" =>
    IF options.format \in {"markdown", "json", "text"}
    THEN result.threw = "" /\ result.text # <<>>
    ELSE result.threw = "Unsupported format" /\ result.text = <<>>

\* C9 (as claimed): every message is parsed to a record whose category is
\* one of the nine and whose title is not empty.
C9_TitleNonEmpty ==
  pc = "parsed" => parsed.type \in CommitTypes /\ parsed.message # ""

\* C9 (amended): every message is parsed to a record whose category is one
\* of the nine; the title is the trimmed title text (group 4 of a grammar
\* match, else the first line) and is empty exactly when that text is
\* nothing but whitespace.
C9_TitleEmptyIffBlank ==
  pc = "parsed" =>
    /\ parsed.type \in CommitTypes
    /\ parsed.message = "" <=> IsBlank(TitleSource(message))

\* C9 witness: a message that matches the grammar was parsed to an empty
\* title.
C9_Witness ==
  /\ pc = "parsed"
  /\ MatchConventional(message).ok
  /\ parsed.message = ""
  /\ parsed.type \in CommitTypes

\* C10: generateReleaseNotes splits its input into the breaking commits and
\* the others; every input commit is in exactly one of the two, both keep
\* the input order, and the breaking-change count of the statistics is the
\* length of the breaking subsequence.
C10_Split ==
  pc = "done" =>
    LET b == result.notes.breakingChanges
        r == result.notes.commits
    IN /\ \A k \in 1..Len(b) : b[k].breaking
       /\ \A k \in 1..Len(r) : ~r[k].breaking
       /\ \A i \in 1..Len(commits) :
            Cardinality({k \in 1..Len(b) : b[k] = commits[i]})
            + Cardinality({k \in 1..Len(r) : r[k] = commits[i]}) = 1
       /\ Len(b) + Len(r) = Len(commits)
       /\ \A k \in 1..(Len(b) - 1) : b[k].sha < b[k + 1].sha
       /\ \A k \in 1..(Len(r) - 1) : r[k].sha < r[k + 1].sha
       /\ options.includeStats =>
            result.notes.stats.breakingChanges = Len(b)

\* C10 witness: an input with a breaking commit whose category is not
\* `breaking` and a non-breaking commit was split and counted.
C10_Witness ==
  /\ pc = "done" /\ options.includeStats
  /\ Len(result.notes.breakingChanges) >= 1
  /\ Len(result.notes.commits) >= 1
  /\ \E k \in 1..Len(result.notes.breakingChanges) :
       result.notes.breakingChanges[k].type # "breaking"

\* C11 (as claimed): in the scope-grouped markdown document no commit line
\* carries the scope annotation, the lines of the Breaking Changes section
\* included; in the category-grouped and the author-grouped document the
\* line of a commit carries the annotation iff the commit has a scope.
C11_ScopeModeSuppressesAll ==
  pc = "done" /\ options.format = "markdown" /\ result.threw = "" =>
    \A i \in 1..Len(commits) :
      \A l \in CommitLinesOf(result.text, commits[i].sha) :
        IF options.groupBy = "scope"
        THEN /\ ~result.text[l].scoped
             /\ result.text[l].text = formatCommit(commits[i], FALSE)
        ELSE /\ result.text[l].scoped <=> Truthy(commits[i].scope)
             /\ result.text[l].text = formatCommit(commits[i], TRUE)

\* C11 (amended): in the markdown document a commit line under a scope
\* section header carries no scope annotation; every other commit line, the
\* lines of the Breaking Changes section in scope mode included, carries the
\* annotation iff the commit has a scope.
C11_SuppressedInScopeSections ==
  pc = "done" /\ options.format = "markdown" /\ result.threw = "" =>
    \A i \in 1..Len(commits) :
      \A l \in CommitLinesOf(result.text, commits[i].sha) :
        IF SectionOf(result.text, l).kind = "scope"
        THEN /\ options.groupBy = "scope"
             /\ ~result.text[l].scoped
             /\ result.text[l].text = formatCommit(commits[i], FALSE)
        ELSE /\ result.text[l].scoped <=> Truthy(commits[i].scope)
             /\ result.text[l].text = formatCommit(commits[i], TRUE)

\* C11 witness: a scope-grouped document lists a breaking commit with its
\* annotation in the Breaking Changes section and a non-breaking commit
\* that has a scope, without annotation, in the section of that scope.
C11_Witness ==
  /\ pc = "done" /\ options.format = "markdown" /\ result.threw = ""
  /\ options.groupBy = "scope"
  /\ \E i, j \in 1..Len(commits) :
       /\ commits[i].breaking /\ Truthy(commits[i].scope)
       /\ \E l \in CommitLinesOf(result.text, commits[i].sha) :
            /\ SectionOf(result.text, l).kind = "breaking"
            /\ result.text[l].scoped
       /\ ~commits[j].breaking /\ Truthy(commits[j].scope)
       /\ \E l \in CommitLinesOf(result.text, commits[j].sha) :
            /\ SectionOf(result.text, l).kind = "scope"
            /\ SectionOf(result.text, l).group = commits[j].scope
            /\ ~result.text[l].scoped

\* C12: a call of fetchCommits with a fromCommit of the repository returns
\* the same commits whether the lookup of fromCommit's date answers or fails
\* on every attempt: in both cases commits in newest-first order, none older
\* than fromCommit, and, when fromCommit is the only filter of the call,
\* exactly fromCommit and the commits newer than it.
C12_SameRangeEitherWay ==
  pc = "returned" /\ Len(fetched) = 2
    /\ GetCommit(remote, call.fromCommit) # {} =>
    /\ fetched[1].commits = fetched[2].commits
    /\ \A r \in 1..2 :
         LET cs == fetched[r].commits IN
         /\ \A k \in 1..Len(cs) : cs[k].sha <= call.fromCommit
         /\ \A k \in 1..(Len(cs) - 1) : cs[k].sha < cs[k + 1].sha
         /\ call.fromDate = NoDate /\ call.toDate = NoDate
              /\ call.toCommit = NoSha =>
              cs = SinceFromCommit(remote, call.fromCommit)

\* C13: in the markdown document generateReleaseNotes returns, for any
\* grouping mode and any scope and author strings, every input commit has
\* exactly one commit line.
C13_OneLinePerCommit ==
  pc = "done" /\ options.format = "markdown" /\ result.threw = "" =>
    \A i \in 1..Len(commits) :
      Cardinality(CommitLinesOf(result.text, commits[i].sha)) = 1

====
